---- MODULE Spec2Model ----
(***************************************************************************)
(* Model of src/index.js: a stateless MCP endpoint that exposes four       *)
(* GitHub read operations as tools.                                        *)
(*                                                                         *)
(* Five specifications share the definitions below:                        *)
(*   SpecPager   listPrFilesPaginated against an upstream that serves the  *)
(*               file list by (page, per_page) offset addressing           *)
(*   SpecAdv     listPrFilesPaginated against an arbitrary upstream        *)
(*   SpecUrl     parsePrUrl as a function of the URL                       *)
(*   SpecTool    one tool invocation, upstream calls may fail              *)
(*   SpecServer  process start-up and the /mcp and / routes                *)
(***************************************************************************)
EXTENDS Integers, Sequences, FiniteSets, TLC

VARIABLES
  \* ---- upstream (GitHub REST API) as seen by one call
  upstream,     \* [mode, P]: how the PR-files endpoint answers
  reqs,         \* log of the upstream requests issued so far
  \* ---- listPrFilesPaginated (lines 68-93)
  max_files, perPage, page, all, brk, ppc, files,
  \* ---- parsePrUrl (lines 19-30)
  pr_url, parsed,
  \* ---- tool handlers (lines 98-275)
  tool, args, tpc, diff, result,
  \* ---- process and routes (lines 8-13, 286-307)
  token, spc, rpc, resClosed, headersSent, closeListener,
  transportOf, serverOf, transportClosed, serverClosed, nextObj, served

pagerVars  == <<max_files, perPage, page, all, brk, ppc, files>>
upVars     == <<upstream, reqs>>
urlVars    == <<pr_url, parsed>>
toolVars   == <<tool, args, tpc, diff, result>>
serverVars == <<token, spc, rpc, resClosed, headersSent, closeListener, transportOf, serverOf, transportClosed, serverClosed, nextObj, served>>
vars       == <<upVars, pagerVars, urlVars, toolVars, serverVars>>

----------------------------------------------------------------------------
(* Bounds of the model *)

\* largest upstream file count of the offset-addressed upstream
MaxP == 301
\* largest max_files handed to the collector under the arbitrary upstream
MaxAdvFiles == 205
\* how many items more than per_page an arbitrary upstream may return
MaxOver == 1

\* longest path (in segments) of a URL handed to parsePrUrl
MaxSegs == 5
\* largest max_files of a tool invocation (two pages need more than PageCap)
MaxToolFiles == 102
\* largest explicit max_diff_chars and longest upstream diff of a tool invocation
MaxCap == 2
MaxDiffLen == 3
\* most entries an upstream list answers with (list tools)
MaxEntries == 2
\* concurrent /mcp requests and number of / requests
MaxReqs == 2
MaxHealth == 1

(* Program constants *)

\* GitHub's page cap, line 69
PageCap == 100
\* schema bounds of max_files, line 189
MinMaxFiles == 1
MaxMaxFiles == 300
\* default of max_files, line 199
DefaultMaxFiles == 50
\* default of max_diff_chars, lines 155 and 202
DefaultMaxDiffChars == 40000

----------------------------------------------------------------------------
(* JavaScript helpers *)

Min(a, b) == IF a <= b THEN a ELSE b

Max(a, b) == IF a >= b THEN a ELSE b

\* Array.prototype.slice / String.prototype.slice(start, end), 0 <= start
Slice(s, start, end) == SubSeq(s, start + 1, Min(end, Len(s)))

----------------------------------------------------------------------------
(* The upstream PR-files endpoint *)

\* The page an upstream holding items 1..P in order serves for (page, per_page)
\* when it returns n items starting at the page's offset.
Batch(pg, per_page, n) == [i \in 1..n |-> (pg - 1) * per_page + i]

\* number of items an offset-addressed upstream with P items has on that page
OffsetCount(P, pg, per_page) == Max(0, Min(per_page, P - (pg - 1) * per_page))

\* the page lengths the upstream may answer with
Lengths(pg, per_page) ==
  IF upstream.mode = "offset"
    THEN {OffsetCount(upstream.P, pg, per_page)}
    ELSE 0..(per_page + MaxOver)

\* log entry of a PR-files request: what was asked and what came back
\* (ok: 2xx; array: the body is a JSON array; n: its length)
FilesReq(pg, per_page, ok, array, n) ==
  [kind |-> "files", page |-> pg, per_page |-> per_page, ok |-> ok, array |-> array, n |-> n]

----------------------------------------------------------------------------
(* listPrFilesPaginated, lines 68-93 *)

\* line 69
PerPageOf(mf) == Min(PageCap, Max(1, mf))

\* lines 74-75
CurrentPerPage(pp, mf, collected) == Min(pp, mf - collected)

\* line 84 (second disjunct)
IsEmptyPage(batch) == Len(batch) = 0

IsLastPage_never(batch, cpp) == FALSE

IsLastPage_offByOne(batch, cpp) == Len(batch) < cpp - 1

\* line 87
IsLastPage(batch, cpp) == Len(batch) < cpp

ReturnValue_noslice(a, mf) == a

\* line 92
ReturnValue(a, mf) == Slice(a, 0, mf)

\* lines 69-71: entry of the function
PagerEnter(mf) ==
  /\ max_files' = mf
  /\ perPage' = PerPageOf(mf)
  /\ page' = 1
  /\ all' = <<>>
  /\ brk' = FALSE
  /\ files' = <<>>
  /\ ppc' = "loop"

\* line 73: the loop is entered again
LoopGuard == ppc = "loop" /\ ~brk /\ Len(all) < max_files

\* lines 84-89 for an array response
PagerIteration(batch) ==
  LET cpp == CurrentPerPage(perPage, max_files, Len(all)) IN
  /\ reqs' = Append(reqs, FilesReq(page, cpp, TRUE, TRUE, Len(batch)))
  /\ IF IsEmptyPage(batch)
       THEN /\ brk' = TRUE
            /\ UNCHANGED <<all, page>>
       ELSE /\ all' = all \o batch
            /\ IF IsLastPage(batch, cpp)
                 THEN brk' = TRUE /\ page' = page
                 ELSE brk' = FALSE /\ page' = page + 1
  /\ UNCHANGED <<max_files, perPage, ppc, files, upstream>>

\* lines 73-90, one iteration whose request succeeds with an array
PagerFetchOk ==
  /\ LoopGuard
  /\ \E n \in Lengths(page, CurrentPerPage(perPage, max_files, Len(all))) :
       PagerIteration(Batch(page, CurrentPerPage(perPage, max_files, Len(all)), n))

\* lines 83-84, the response body is JSON but not an array
PagerFetchNonArray ==
  /\ LoopGuard
  /\ upstream.mode # "offset"
  /\ reqs' = Append(reqs, FilesReq(page, CurrentPerPage(perPage, max_files, Len(all)), TRUE, FALSE, 0))
  /\ brk' = TRUE
  /\ UNCHANGED <<max_files, perPage, page, all, ppc, files, upstream>>

PagerFetchFail_swallowed ==
  /\ LoopGuard
  /\ upstream.mode # "offset"
  /\ reqs' = Append(reqs, FilesReq(page, CurrentPerPage(perPage, max_files, Len(all)), FALSE, FALSE, 0))
  /\ brk' = TRUE
  /\ UNCHANGED <<max_files, perPage, page, all, ppc, files, upstream>>

\* lines 83 and 40-43: the response is not ok, ghFetchJson throws
PagerFetchFail ==
  /\ LoopGuard
  /\ upstream.mode # "offset"
  /\ reqs' = Append(reqs, FilesReq(page, CurrentPerPage(perPage, max_files, Len(all)), FALSE, FALSE, 0))
  /\ ppc' = "threw"
  /\ UNCHANGED <<max_files, perPage, page, all, brk, files, upstream>>

\* lines 73 and 92: the loop is left and the slice returned
PagerReturn ==
  /\ ppc = "loop"
  /\ (brk \/ Len(all) >= max_files)
  /\ files' = ReturnValue(all, max_files)
  /\ ppc' = "returned"
  /\ UNCHANGED <<max_files, perPage, page, all, brk, upVars>>

----------------------------------------------------------------------------
(* parsePrUrl, lines 19-30 *)

\* String.prototype.split("/") on the pathname "/" + segs joined by "/"
PathSplit(segs) == <<"">> \o segs

\* Array.prototype.filter(Boolean) on strings: drops the empty ones
RECURSIVE FilterBoolean(_)
FilterBoolean(s) ==
  IF s = <<>> THEN <<>>
  ELSE IF Head(s) = "" THEN FilterBoolean(Tail(s))
       ELSE <<Head(s)>> \o FilterBoolean(Tail(s))

\* Array.prototype.findIndex(p => p === x): 0-based, -1 when absent
FindIndex(s, x) ==
  IF \E i \in 1..Len(s) : s[i] = x
    THEN (CHOOSE i \in 1..Len(s) : s[i] = x /\ \A j \in 1..(i - 1) : s[j] # x) - 1
    ELSE -1

\* parts[i] is truthy (0-based i): in range and not the empty string
Truthy(parts, i) == i + 1 \in 1..Len(parts) /\ parts[i + 1] # ""

Unparsed == [done |-> FALSE, ok |-> FALSE, owner |-> "", repo |-> "", number |-> ""]

ParseError == [done |-> TRUE, ok |-> FALSE, owner |-> "", repo |-> "", number |-> ""]

\* lines 21-29; u is the URL as new URL() presents it: hostname and path
ParsePrUrl(u) ==
  LET parts   == FilterBoolean(PathSplit(u.segs))
      pullIdx == FindIndex(parts, "pull")
  IN IF u.hostname # "github.com" \/ pullIdx < 2 \/ ~Truthy(parts, pullIdx + 1)
       THEN ParseError
       ELSE [done |-> TRUE, ok |-> TRUE, owner |-> parts[1], repo |-> parts[2], number |-> parts[pullIdx + 2]]

\* applies the parser to the URL under test
ParseUrl ==
  /\ ~parsed.done
  /\ pr_url.hostname # ""
  /\ parsed' = ParsePrUrl(pr_url)
  /\ UNCHANGED pr_url

----------------------------------------------------------------------------
(* Idle values of the components a specification does not exercise *)

Reqs == 1..MaxReqs

PagerIdle ==
  /\ max_files = 0 /\ perPage = 0 /\ page = 0 /\ all = <<>> /\ brk = FALSE
  /\ ppc = "idle" /\ files = <<>>

UpIdle == upstream = [mode |-> "none", P |-> 0] /\ reqs = <<>>

UrlIdle == pr_url = [hostname |-> "", segs |-> <<>>] /\ parsed = Unparsed

NoArgs == [max_files |-> 0, include_diff |-> FALSE, max_diff_chars |-> 0]

NoResult == [has |-> FALSE, text |-> "", entries |-> 0, files |-> <<>>, diffBlock |-> FALSE, notice |-> <<>>, out |-> <<>>]

ToolIdle ==
  /\ tool = "none" /\ args = NoArgs /\ tpc = "idle" /\ diff = <<>> /\ result = NoResult

ServerIdle ==
  /\ token = "set" /\ spc = "off"
  /\ rpc = [r \in Reqs |-> "none"]
  /\ resClosed = [r \in Reqs |-> FALSE]
  /\ headersSent = [r \in Reqs |-> FALSE]
  /\ closeListener = [r \in Reqs |-> FALSE]
  /\ transportOf = [r \in Reqs |-> 0]
  /\ serverOf = [r \in Reqs |-> 0]
  /\ transportClosed = {} /\ serverClosed = {} /\ nextObj = 0 /\ served = 0

----------------------------------------------------------------------------
(* SpecPager: the collector against an offset-addressed upstream *)

InitPager ==
  /\ \E P \in 0..MaxP : upstream = [mode |-> "offset", P |-> P]
  /\ reqs = <<>>
  /\ max_files \in MinMaxFiles..MaxMaxFiles
  /\ perPage = PerPageOf(max_files)
  /\ page = 1 /\ all = <<>> /\ brk = FALSE /\ files = <<>> /\ ppc = "loop"
  /\ UrlIdle /\ ToolIdle /\ ServerIdle

NextPager ==
  \/ PagerFetchOk /\ UNCHANGED <<urlVars, toolVars, serverVars>>
  \/ PagerReturn /\ UNCHANGED <<urlVars, toolVars, serverVars>>

SpecPager == InitPager /\ [][NextPager]_vars

----------------------------------------------------------------------------
(* Claims about the collector under offset addressing (SpecPager) *)

CeilDiv(a, b) == (a + b - 1) \div b

\* C1: with an offset-addressed upstream of P items and max_files = M in
\* 1..300, the collector returns exactly min(P, M) items.
C1_ReturnsMinCount ==
  ppc = "returned" => Len(files) = Min(upstream.P, max_files)

\* C2 as stated: one call issues exactly ceil(min(P, M) / S) page requests,
\* S = min(100, M), also when P is an exact multiple of S and P < M.
C2_CeilRequests ==
  ppc = "returned" => Len(reqs) = CeilDiv(Min(upstream.P, max_files), perPage)

\* C2 amended: one call issues exactly ceil(M / S) page requests when P >= M
\* and exactly floor(P / S) + 1 page requests when P < M (one more than
\* ceil(P / S) when P is an exact multiple of S, P = 0 included), and at no
\* point of the call more than that.
C2_RequestCount ==
  /\ Len(reqs) <= (IF upstream.P >= max_files THEN CeilDiv(max_files, perPage) ELSE (upstream.P \div perPage) + 1)
  /\ ppc = "returned" =>
       Len(reqs) = (IF upstream.P >= max_files THEN CeilDiv(max_files, perPage) ELSE (upstream.P \div perPage) + 1)

C2_Witness ==
  /\ ppc = "returned"
  /\ upstream.P < max_files /\ upstream.P > 0 /\ upstream.P % perPage = 0
  /\ Len(reqs) = (upstream.P \div perPage) + 1
  /\ reqs[Len(reqs)].n = 0

\* C10: with an offset-addressed upstream the collector returns exactly the
\* first min(P, M) items of the upstream list, in order, none duplicated and
\* none skipped, also when the last request uses a smaller per_page.
C10_ExactPrefix ==
  ppc = "returned" => files = [i \in 1..Min(upstream.P, max_files) |-> i]

----------------------------------------------------------------------------
(* SpecAdv: the collector against an upstream that answers anything *)

InitAdv ==
  /\ upstream = [mode |-> "any", P |-> 0]
  /\ reqs = <<>>
  /\ max_files \in 0..MaxAdvFiles
  /\ perPage = PerPageOf(max_files)
  /\ page = 1 /\ all = <<>> /\ brk = FALSE /\ files = <<>> /\ ppc = "loop"
  /\ UrlIdle /\ ToolIdle /\ ServerIdle

NextAdv ==
  \/ PagerFetchOk /\ UNCHANGED <<urlVars, toolVars, serverVars>>
  \/ PagerFetchNonArray /\ UNCHANGED <<urlVars, toolVars, serverVars>>
  \/ PagerFetchFail /\ UNCHANGED <<urlVars, toolVars, serverVars>>
  \/ PagerReturn /\ UNCHANGED <<urlVars, toolVars, serverVars>>

SpecAdv == InitAdv /\ [][NextAdv]_vars

\* C3: for every max_files >= 0 and every upstream behaviour, pages longer
\* than the per_page requested included, the returned sequence has at most
\* max_files items.
C3_AtMostMaxFiles ==
  ppc = "returned" => Len(files) <= max_files

C3_Witness ==
  /\ ppc = "returned"
  /\ Len(all) > max_files
  /\ Len(files) = max_files
  /\ Len(reqs) = 2

\* C8: when the first page is shorter than the per_page requested, the call
\* ends after exactly one upstream request and returns that page's items,
\* also when the page is non-empty and fewer than max_files were collected.
C8_ShortFirstPageStops ==
  (Len(reqs) >= 1 /\ reqs[1].ok /\ reqs[1].array /\ reqs[1].n < reqs[1].per_page) =>
     /\ Len(reqs) = 1
     /\ ppc \in {"loop", "returned"}
     /\ ppc = "loop" => brk
     /\ ppc = "returned" => files = Batch(1, reqs[1].per_page, reqs[1].n)

C8_Witness ==
  /\ ppc = "returned"
  /\ Len(reqs) = 1 /\ reqs[1].ok /\ reqs[1].array
  /\ reqs[1].n > 0 /\ reqs[1].n < reqs[1].per_page
  /\ Len(files) = reqs[1].n /\ Len(files) < max_files

----------------------------------------------------------------------------
(* SpecUrl: parsePrUrl applied to a URL *)

Hosts == {"github.com", "gitlab.com"}

Segments == {"acme", "widgets", "pull", "42", ""}

SeqsUpTo(S, n) == UNION {[1..k -> S] : k \in 0..n}

InitUrl ==
  /\ pr_url \in [hostname : Hosts, segs : SeqsUpTo(Segments, MaxSegs)]
  /\ parsed = Unparsed
  /\ UpIdle /\ PagerIdle /\ ToolIdle /\ ServerIdle

NextUrl == ParseUrl /\ UNCHANGED <<upVars, pagerVars, toolVars, serverVars>>

SpecUrl == InitUrl /\ [][NextUrl]_vars

\* the URL is https://github.com/{O}/{R}/pull/{N}, O and R non-empty, N numeric-looking
WellFormedPrUrl(u) ==
  /\ u.hostname = "github.com"
  /\ Len(u.segs) = 4
  /\ u.segs[1] # "" /\ u.segs[2] # ""
  /\ u.segs[3] = "pull"
  /\ u.segs[4] = "42"

\* C4: for every URL https://github.com/{O}/{R}/pull/{N} with non-empty O and
\* R (the value "pull" included) and numeric-looking N, parsePrUrl does not
\* fail and returns owner O, repo R, number N.
C4_ParsesEveryPrUrl ==
  (parsed.done /\ WellFormedPrUrl(pr_url)) =>
     /\ parsed.ok
     /\ parsed.owner = pr_url.segs[1]
     /\ parsed.repo = pr_url.segs[2]
     /\ parsed.number = pr_url.segs[4]

----------------------------------------------------------------------------
(* Tool handlers, lines 98-275 *)

Tools == {"github_list_repos", "github_list_pull_requests", "github_get_pull_request_diff", "github_summarize_pull_request"}

\* tools whose handler starts with parsePrUrl (lines 156 and 204)
UrlTools == {"github_get_pull_request_diff", "github_summarize_pull_request"}

GoodUrl == [hostname |-> "github.com", segs |-> <<"acme", "widgets", "pull", "42">>]

BadUrl == [hostname |-> "gitlab.com", segs |-> <<"acme", "widgets", "pull", "42">>]

DiffTexts == SeqsUpTo({"+", "-"}, MaxDiffLen)

\* a destructuring default (lines 155, 196-203): undefined is modelled as -1
Default(v, d) == IF v = -1 THEN d ELSE v

OtherReq(kind, ok) == [kind |-> kind, page |-> 0, per_page |-> 0, ok |-> ok, array |-> FALSE, n |-> 0]

\* the protocol layer calls a handler with schema-valid arguments
\* (lines 152-153, 187-194); the defaults of lines 155 and 196-203 apply
Invoke ==
  /\ tpc = "idle"
  /\ \E t \in Tools, u \in {GoodUrl, BadUrl}, mf \in (MinMaxFiles..Min(MaxToolFiles, MaxMaxFiles)) \cup {-1}, id \in BOOLEAN, c \in (0..MaxCap) \cup {-1} :
       /\ tool' = t
       /\ pr_url' = IF t \in UrlTools THEN u ELSE pr_url
       /\ args' = [max_files      |-> IF t = "github_summarize_pull_request" THEN Default(mf, DefaultMaxFiles) ELSE 0,
                   include_diff   |-> t = "github_summarize_pull_request" /\ id,
                   max_diff_chars |-> IF t \in UrlTools THEN Default(c, DefaultMaxDiffChars) ELSE 0]
  /\ tpc' = "start"
  /\ upstream' = [mode |-> "any", P |-> 0]
  /\ UNCHANGED <<reqs, pagerVars, parsed, diff, result>>

\* lines 105-116, the fetch of line 110 succeeds with k repositories
ListReposOk ==
  /\ tpc = "start" /\ tool = "github_list_repos"
  /\ \E k \in 0..MaxEntries :
       /\ reqs' = Append(reqs, OtherReq("repos", TRUE))
       /\ result' = [NoResult EXCEPT !.has = TRUE, !.text = "names", !.entries = k]
  /\ tpc' = "done"
  /\ UNCHANGED <<upstream, pagerVars, urlVars, tool, args, diff>>

\* line 110 throws
ListReposFail ==
  /\ tpc = "start" /\ tool = "github_list_repos"
  /\ reqs' = Append(reqs, OtherReq("repos", FALSE))
  /\ tpc' = "failed"
  /\ UNCHANGED <<upstream, pagerVars, urlVars, tool, args, diff, result>>

\* lines 128-141, the fetch of line 133 succeeds with k pull requests
ListPullsOk ==
  /\ tpc = "start" /\ tool = "github_list_pull_requests"
  /\ \E k \in 0..MaxEntries :
       /\ reqs' = Append(reqs, OtherReq("pulls", TRUE))
       /\ result' = [NoResult EXCEPT !.has = TRUE, !.text = IF k = 0 THEN "(no PRs)" ELSE "lines", !.entries = k]
  /\ tpc' = "done"
  /\ UNCHANGED <<upstream, pagerVars, urlVars, tool, args, diff>>

\* line 133 throws
ListPullsFail ==
  /\ tpc = "start" /\ tool = "github_list_pull_requests"
  /\ reqs' = Append(reqs, OtherReq("pulls", FALSE))
  /\ tpc' = "failed"
  /\ UNCHANGED <<upstream, pagerVars, urlVars, tool, args, diff, result>>

\* lines 156 and 204: parsePrUrl returns or throws
ToolParse ==
  /\ tpc = "start" /\ tool \in UrlTools
  /\ parsed' = ParsePrUrl(pr_url)
  /\ tpc' = IF parsed'.ok THEN "parsed" ELSE "failed"
  /\ UNCHANGED <<upVars, pagerVars, pr_url, tool, args, diff, result>>

DiffOut_alwaysSlice(d, c) == Slice(d, 0, c)

\* lines 164-165
DiffOut(d, c) == IF c = 0 THEN d ELSE Slice(d, 0, c)

\* lines 173-175: the notice states the cap and the length of the diff
DiffNotice(d, c) == IF c > 0 /\ Len(d) > c THEN <<c, Len(d)>> ELSE <<>>

\* line 236
SumDiffOut(d, c) == IF c = 0 THEN d ELSE Slice(d, 0, c)

\* lines 239-241
SumDiffNotice(d, c) == IF c > 0 /\ Len(d) > c THEN <<c, Len(d)>> ELSE <<>>

\* lines 159-179: the diff is fetched and the text returned
DiffFetchOk ==
  /\ tpc = "parsed" /\ tool = "github_get_pull_request_diff"
  /\ \E d \in DiffTexts :
       /\ diff' = d
       /\ result' = [NoResult EXCEPT !.has = TRUE, !.text = "PR Diff", !.diffBlock = TRUE,
                                     !.notice = DiffNotice(d, args.max_diff_chars),
                                     !.out = DiffOut(d, args.max_diff_chars)]
  /\ reqs' = Append(reqs, OtherReq("diff", TRUE))
  /\ tpc' = "done"
  /\ UNCHANGED <<upstream, pagerVars, urlVars, tool, args>>

\* line 159 throws (lines 56-59)
DiffFetchFail ==
  /\ tpc = "parsed" /\ tool = "github_get_pull_request_diff"
  /\ reqs' = Append(reqs, OtherReq("diff", FALSE))
  /\ tpc' = "failed"
  /\ UNCHANGED <<upstream, pagerVars, urlVars, tool, args, diff, result>>

\* lines 207-217: the PR is fetched and listPrFilesPaginated entered
SumFetchPrOk ==
  /\ tpc = "parsed" /\ tool = "github_summarize_pull_request"
  /\ reqs' = Append(reqs, OtherReq("pr", TRUE))
  /\ PagerEnter(args.max_files)
  /\ tpc' = "files"
  /\ UNCHANGED <<upstream, urlVars, tool, args, diff, result>>

\* line 207 throws (lines 40-43)
SumFetchPrFail ==
  /\ tpc = "parsed" /\ tool = "github_summarize_pull_request"
  /\ reqs' = Append(reqs, OtherReq("pr", FALSE))
  /\ tpc' = "failed"
  /\ UNCHANGED <<upstream, pagerVars, urlVars, tool, args, diff, result>>

\* line 212: a page request of the collector throws; nothing catches it
SumFilesFail ==
  /\ tpc = "files"
  /\ PagerFetchFail
  /\ tpc' = IF ppc' = "threw" THEN "failed" ELSE tpc
  /\ UNCHANGED <<urlVars, tool, args, diff, result>>

\* lines 245-273: the report, with the diff block when there is one
Report(fs, hasDiff, d, c) ==
  [NoResult EXCEPT !.has = TRUE, !.text = "summary", !.entries = Len(fs), !.files = fs,
                   !.diffBlock = hasDiff,
                   !.notice = IF hasDiff THEN SumDiffNotice(d, c) ELSE <<>>,
                   !.out = IF hasDiff THEN SumDiffOut(d, c) ELSE <<>>]

\* lines 212-230 and 245-273, include_diff false: the report is returned
SumFinishNoDiff ==
  /\ tpc = "files" /\ ppc = "returned" /\ ~args.include_diff
  /\ result' = Report(files, FALSE, <<>>, args.max_diff_chars)
  /\ tpc' = "done"
  /\ UNCHANGED <<upVars, pagerVars, urlVars, tool, args, diff>>

\* lines 212-273, include_diff true and the diff fetch of line 232 succeeds
SumDiffOk ==
  /\ tpc = "files" /\ ppc = "returned" /\ args.include_diff
  /\ \E d \in DiffTexts :
       /\ diff' = d
       /\ result' = Report(files, TRUE, d, args.max_diff_chars)
  /\ reqs' = Append(reqs, OtherReq("diff", TRUE))
  /\ tpc' = "done"
  /\ UNCHANGED <<upstream, pagerVars, urlVars, tool, args>>

\* line 232 throws (lines 56-59)
SumDiffFail ==
  /\ tpc = "files" /\ ppc = "returned" /\ args.include_diff
  /\ reqs' = Append(reqs, OtherReq("diff", FALSE))
  /\ tpc' = "failed"
  /\ UNCHANGED <<upstream, pagerVars, urlVars, tool, args, diff, result>>

----------------------------------------------------------------------------
(* SpecTool: one tool invocation *)

InitTool == UpIdle /\ PagerIdle /\ UrlIdle /\ ToolIdle /\ ServerIdle

NextTool ==
  \/ Invoke /\ UNCHANGED serverVars
  \/ ListReposOk /\ UNCHANGED serverVars
  \/ ListReposFail /\ UNCHANGED serverVars
  \/ ListPullsOk /\ UNCHANGED serverVars
  \/ ListPullsFail /\ UNCHANGED serverVars
  \/ ToolParse /\ UNCHANGED serverVars
  \/ DiffFetchOk /\ UNCHANGED serverVars
  \/ DiffFetchFail /\ UNCHANGED serverVars
  \/ SumFetchPrOk /\ UNCHANGED serverVars
  \/ SumFetchPrFail /\ UNCHANGED serverVars
  \/ PagerFetchOk /\ UNCHANGED <<urlVars, toolVars, serverVars>>
  \/ PagerFetchNonArray /\ UNCHANGED <<urlVars, toolVars, serverVars>>
  \/ SumFilesFail /\ UNCHANGED serverVars
  \/ PagerReturn /\ UNCHANGED <<urlVars, toolVars, serverVars>>
  \/ SumFinishNoDiff /\ UNCHANGED serverVars
  \/ SumDiffOk /\ UNCHANGED serverVars
  \/ SumDiffFail /\ UNCHANGED serverVars

SpecTool == InitTool /\ [][NextTool]_vars

\* the invocation returned a text that carries a diff
DiffEmitted ==
  /\ tpc = "done"
  /\ \/ tool = "github_get_pull_request_diff"
     \/ tool = "github_summarize_pull_request" /\ args.include_diff

\* C5: in both diff-returning tools, for a diff of length L and cap
\* C = max_diff_chars: if C > 0 and L > C the emitted diff has length exactly
\* C and the notice states C and L; if C > 0 and L <= C, or if C = 0, the
\* full diff is emitted and there is no notice.
C5_Truncation ==
  DiffEmitted =>
    LET L == Len(diff)
        C == args.max_diff_chars
    IN /\ result.has /\ result.diffBlock
       /\ (C > 0 /\ L > C) => (Len(result.out) = C /\ result.notice = <<C, L>>)
       /\ (C > 0 /\ L <= C) => (result.out = diff /\ result.notice = <<>>)
       /\ (C = 0) => (result.out = diff /\ result.notice = <<>>)

C5_Witness ==
  /\ DiffEmitted
  /\ tool = "github_summarize_pull_request"
  /\ args.max_diff_chars > 0 /\ Len(diff) > args.max_diff_chars
  /\ Len(result.out) = args.max_diff_chars
  /\ result.notice = <<args.max_diff_chars, Len(diff)>>

\* C6: the first upstream call that fails aborts the invocation: no upstream
\* request follows it, it is not issued again, and the invocation fails
\* without a result, whatever was collected before (PR metadata, pages).
C6_FirstFailureAborts ==
  /\ \A i \in 1..Len(reqs) : ~reqs[i].ok =>
       /\ i = Len(reqs)
       /\ tpc = "failed"
       /\ ~result.has
       /\ reqs[i].kind = "files" => (ppc = "threw" /\ files = <<>>)
  /\ tpc = "failed" => (~result.has /\ result = NoResult)

C6_Witness ==
  /\ tpc = "failed"
  /\ tool = "github_summarize_pull_request"
  /\ Len(reqs) = 3
  /\ reqs[1].ok /\ reqs[2].ok /\ ~reqs[3].ok
  /\ reqs[3].kind = "files"
  /\ Len(all) > 0
  /\ ~result.has /\ files = <<>>

----------------------------------------------------------------------------
(* Process start-up and routes, lines 8-16 and 286-307 *)

Tokens == {"undefined", "", "ghp_x"}

TokenMissing_undefinedOnly(t) == t = "undefined"

\* line 10: !token
TokenMissing(t) == t = "undefined" \/ t = ""

\* lines 10-13: the credential is missing, process.exit(1)
StartExit ==
  /\ spc = "boot"
  /\ TokenMissing(token)
  /\ spc' = "exited"
  /\ UNCHANGED <<token, rpc, resClosed, headersSent, closeListener, transportOf, serverOf, transportClosed, serverClosed, nextObj, served>>

\* lines 10, 15-16, 286-307: routes are registered and the listener bound
StartListen ==
  /\ spc = "boot"
  /\ ~TokenMissing(token)
  /\ spc' = "listening"
  /\ UNCHANGED <<token, rpc, resClosed, headersSent, closeListener, transportOf, serverOf, transportClosed, serverClosed, nextObj, served>>

\* line 302: GET / is answered
HealthGet ==
  /\ spc = "listening"
  /\ served < MaxHealth
  /\ served' = served + 1
  /\ UNCHANGED <<token, spc, rpc, resClosed, headersSent, closeListener, transportOf, serverOf, transportClosed, serverClosed, nextObj>>

\* lines 286-290 with getServer, lines 95-96 and 277-283: a request arrives,
\* a new McpServer and a new transport are made and handleRequest is awaited
McpArrive(r) ==
  /\ spc = "listening"
  /\ rpc[r] = "none"
  /\ serverOf' = [serverOf EXCEPT ![r] = nextObj + 1]
  /\ transportOf' = [transportOf EXCEPT ![r] = nextObj + 2]
  /\ nextObj' = nextObj + 2
  /\ rpc' = [rpc EXCEPT ![r] = "handling"]
  /\ UNCHANGED <<token, spc, resClosed, headersSent, closeListener, transportClosed, serverClosed, served>>

\* line 290, inside handleRequest: the transport starts the response
McpRespond(r) ==
  /\ rpc[r] = "handling"
  /\ ~headersSent[r] /\ ~resClosed[r]
  /\ headersSent' = [headersSent EXCEPT ![r] = TRUE]
  /\ UNCHANGED <<token, spc, rpc, resClosed, closeListener, transportOf, serverOf, transportClosed, serverClosed, nextObj, served>>

\* lines 290 and 296-299: handleRequest resolves, the close listener is added
McpHandleReturn(r) ==
  /\ rpc[r] = "handling"
  /\ closeListener' = [closeListener EXCEPT ![r] = TRUE]
  /\ rpc' = [rpc EXCEPT ![r] = "finished"]
  /\ UNCHANGED <<token, spc, resClosed, headersSent, transportOf, serverOf, transportClosed, serverClosed, nextObj, served>>

\* lines 291-299: handleRequest rejects, a 500 is sent unless the headers
\* are out, and the close listener is added
McpHandleThrow(r) ==
  /\ rpc[r] = "handling"
  /\ headersSent' = [headersSent EXCEPT ![r] = TRUE]
  /\ closeListener' = [closeListener EXCEPT ![r] = TRUE]
  /\ rpc' = [rpc EXCEPT ![r] = "finished"]
  /\ UNCHANGED <<token, spc, resClosed, transportOf, serverOf, transportClosed, serverClosed, nextObj, served>>

\* the response emits 'close' (once); the listeners added so far run,
\* lines 296-299
ResClose(r) ==
  /\ rpc[r] \in {"handling", "finished"}
  /\ ~resClosed[r]
  /\ resClosed' = [resClosed EXCEPT ![r] = TRUE]
  /\ IF closeListener[r]
       THEN /\ transportClosed' = transportClosed \cup {transportOf[r]}
            /\ serverClosed' = serverClosed \cup {serverOf[r]}
       ELSE UNCHANGED <<transportClosed, serverClosed>>
  /\ UNCHANGED <<token, spc, rpc, headersSent, closeListener, transportOf, serverOf, nextObj, served>>

InitServer ==
  /\ token \in Tokens
  /\ spc = "boot"
  /\ rpc = [r \in Reqs |-> "none"]
  /\ resClosed = [r \in Reqs |-> FALSE]
  /\ headersSent = [r \in Reqs |-> FALSE]
  /\ closeListener = [r \in Reqs |-> FALSE]
  /\ transportOf = [r \in Reqs |-> 0]
  /\ serverOf = [r \in Reqs |-> 0]
  /\ transportClosed = {} /\ serverClosed = {} /\ nextObj = 0 /\ served = 0
  /\ UpIdle /\ PagerIdle /\ UrlIdle /\ ToolIdle

NextServer ==
  \/ StartExit /\ UNCHANGED <<upVars, pagerVars, urlVars, toolVars>>
  \/ StartListen /\ UNCHANGED <<upVars, pagerVars, urlVars, toolVars>>
  \/ HealthGet /\ UNCHANGED <<upVars, pagerVars, urlVars, toolVars>>
  \/ \E r \in Reqs : McpArrive(r) /\ UNCHANGED <<upVars, pagerVars, urlVars, toolVars>>
  \/ \E r \in Reqs : McpRespond(r) /\ UNCHANGED <<upVars, pagerVars, urlVars, toolVars>>
  \/ \E r \in Reqs : McpHandleReturn(r) /\ UNCHANGED <<upVars, pagerVars, urlVars, toolVars>>
  \/ \E r \in Reqs : McpHandleThrow(r) /\ UNCHANGED <<upVars, pagerVars, urlVars, toolVars>>
  \/ \E r \in Reqs : ResClose(r) /\ UNCHANGED <<upVars, pagerVars, urlVars, toolVars>>

SpecServer == InitServer /\ [][NextServer]_vars

\* C7: every /mcp request gets a transport and a server of its own, and once
\* the request's connection has closed and its handling has ended both have
\* been closed, whichever of the two happened first and whether
\* handleRequest returned or failed.
C7_ReleasedAfterClose ==
  \A r \in Reqs :
    /\ rpc[r] # "none" =>
         /\ transportOf[r] # serverOf[r]
         /\ \A q \in Reqs \ {r} : rpc[q] # "none" =>
              {transportOf[r], serverOf[r]} \cap {transportOf[q], serverOf[q]} = {}
    /\ (rpc[r] = "finished" /\ resClosed[r]) =>
         (transportOf[r] \in transportClosed /\ serverOf[r] \in serverClosed)

\* C9: when GH_PERSONAL_ACCESS_TOKEN is absent or empty the process ends
\* before a listener is bound: app.listen is never reached and no /mcp or /
\* request is served.
C9_NoListenWithoutToken ==
  token \in {"undefined", ""} =>
    /\ spc \in {"boot", "exited"}
    /\ served = 0
    /\ \A r \in Reqs : rpc[r] = "none"

C9_Witness ==
  /\ token \in {"undefined", ""}
  /\ spc = "exited"

====
